---- MODULE Spec2Model ----
(***************************************************************************)
(* A ledger of hash-linked blocks shared by several threads.               *)
(*                                                                         *)
(* Blockchain (src/src/blockchain/blockchain.rs) owns an                   *)
(* Arc<Mutex<Vec<Block>>>.  Every method takes the mutex with              *)
(* lock().unwrap(); add_block panics, with the guard alive, when one of    *)
(* its three checks fails.  A std::sync::Mutex whose guard is dropped by   *)
(* a panicking thread is poisoned, and lock() on a poisoned mutex returns  *)
(* Err, on which unwrap() panics.                                          *)
(*                                                                         *)
(* Block (crate::blockchain::block) is not among the source files: its     *)
(* constructor and calculate_hash are modelled from the specification      *)
(* as a deterministic fixed-width function of the four other fields.       *)
(***************************************************************************)
EXTENDS Integers, Sequences, FiniteSets, TLC

\* ------------------------------------------------------------------ bounds
\* threads that call the methods of one Blockchain
NumThreads == 2
\* largest index a candidate block carries
MaxIndex == 2
\* transactions the pool takes before add_transaction is no longer called
MaxPool == 3
\* Blockchain values (the results of new() and of clone()) that can exist
NumHandles == 3

Threads == 1..NumThreads
HandleIds == 1..NumHandles

\* ------------------------------------------------------------- block model
\* width of a BlockHash: the digest is abstracted to HashBits bits
HashBits == 1

RECURSIVE Pow2(_)
Pow2(n) == IF n = 0 THEN 1 ELSE 2 * Pow2(n - 1)

HashSpace == 0..(Pow2(HashBits) - 1)

\* BlockHash::default(): the all-zero digest
ZeroHash == 0

\* Transaction { sender, recipient, amount }: nothing checks the fields
Transaction == [sender : {"a"}, recipient : {"b"}, amount : {1, 2}]

\* the transaction lists a candidate block carries
TransactionLists == {<<>>, <<[sender |-> "a", recipient |-> "b", amount |-> 1]>>}

RECURSIVE EncodeTransactions(_)
EncodeTransactions(transactions) ==
    IF transactions = <<>> THEN 0
    ELSE Head(transactions).amount + 2 * EncodeTransactions(Tail(transactions))

\* Block::calculate_hash: a digest of (index, nonce, previous_hash,
\* transactions) of HashBits bits
calculate_hash(index, nonce, previous_hash, transactions) ==
    (1 + 3 * index + 5 * nonce + 7 * previous_hash
       + 11 * EncodeTransactions(transactions)) % Pow2(HashBits)

\* Block::new: the hash is computed from the other four fields
NewBlock(index, nonce, previous_hash, transactions) ==
    [index |-> index, nonce |-> nonce, previous_hash |-> previous_hash,
     hash |-> calculate_hash(index, nonce, previous_hash, transactions),
     transactions |-> transactions]

\* block.calculate_hash() on an existing block
BlockHashOf(block) ==
    calculate_hash(block.index, block.nonce, block.previous_hash,
                   block.transactions)

\* nonce is carried and hashed, and no rule reads it: candidates carry 0
Nonces == {0}

\* every value a caller can pass to add_block: the fields are public, so
\* the stored hash need not be the computed one.  No candidate carries an
\* index above MaxIndex, so the ledger never holds more than MaxIndex + 1
\* blocks.
Block == [index : 0..MaxIndex, nonce : Nonces,
          previous_hash : HashSpace, hash : HashSpace,
          transactions : TransactionLists]

\* --------------------------------------------------------------- the state
VARIABLES
    blocks,      \* the Vec<Block> inside the mutex
    lockHolder,  \* thread holding the mutex guard, 0 when free
    poisoned,    \* the mutex's poison flag
    pc,          \* per thread: position in the method it is running
    op,          \* per thread: the method called last
    arg,         \* per thread: the block passed to add_block
    result,      \* per thread: outcome of the last call
    ret,         \* per thread: value returned by the last read
    appended,    \* history: number of add_block calls that returned
    pool,        \* the transaction pool's queue
    poolHolder,  \* thread holding the pool mutex guard, 0 when free
    txArg,       \* per thread: the transaction add_transaction is pushing
    submitted,   \* history: transactions in the order their pushes locked
    arcs,        \* per allocation: the Mutex<Vec<Block>> behind an Arc
    handles,     \* per Blockchain value: the allocation its Arc points to
    family,      \* history: per Blockchain value, the new() it descends from
    event        \* the last call made through a Blockchain value

\* the gateway's pool and its history
apiVars == <<pool, poolHolder, txArg, submitted>>

\* Blockchain values and the allocations they point to
handleVars == <<arcs, handles, family, event>>

vars == <<blocks, lockHolder, poisoned, pc, op, arg, result, ret, appended,
          apiVars, handleVars>>

NoBlock == <<>>
\* the candidates that carry a transaction
CarryingBlock == {block \in Block : block.transactions # <<>>}
NoTransaction == <<>>

\* allocations a Blockchain value can point to: two ledgers are told apart
LedgerIds == {1, 2}

\* an allocation no new() has made yet
Unallocated == [blocks |-> <<>>, poisoned |-> FALSE]
NoEvent ==
    [op |-> "none", handle |-> 0, result |-> "none", block |-> NoBlock,
     blocks |-> <<>>]
NoRet == [kind |-> "none"]

Last(seq) == seq[Len(seq)]

create_genesis_block_nonce1 == NewBlock(0, 1, ZeroHash, <<>>)

\* Blockchain::create_genesis_block
create_genesis_block == NewBlock(0, 0, ZeroHash, <<>>)

\* Blockchain::new
Init ==
    /\ blocks = <<create_genesis_block>>
    /\ lockHolder = 0
    /\ poisoned = FALSE
    /\ pc = [t \in Threads |-> "idle"]
    /\ op = [t \in Threads |-> "none"]
    /\ arg = [t \in Threads |-> NoBlock]
    /\ result = [t \in Threads |-> "none"]
    /\ ret = [t \in Threads |-> NoRet]
    /\ appended = 0
    /\ pool = <<>>
    /\ poolHolder = 0
    /\ txArg = [t \in Threads |-> NoTransaction]
    /\ submitted = <<>>
    /\ arcs = [a \in LedgerIds |-> Unallocated]
    /\ handles = [h \in HandleIds |-> 0]
    /\ family = [h \in HandleIds |-> 0]
    /\ event = NoEvent

\* ------------------------------------------------------------- the mutex
MutexAvailable_nolock(holder) == TRUE

\* Mutex::lock blocks until no other guard is alive
MutexAvailable(holder) == holder = 0

\* self.blocks.lock().unwrap() on a poisoned mutex, in any of the three
\* methods: lock() returns Err as soon as the mutex is free, unwrap panics
\* and the guard inside the Err is dropped
LockPoisoned(t, method) ==
    /\ pc[t] = "idle"
    /\ MutexAvailable(lockHolder)
    /\ poisoned
    /\ pc' = [pc EXCEPT ![t] = "panicked"]
    /\ op' = [op EXCEPT ![t] = method]
    /\ result' = [result EXCEPT ![t] = "PoisonError"]
    /\ ret' = [ret EXCEPT ![t] = NoRet]
    /\ UNCHANGED <<apiVars, handleVars, appended, blocks, lockHolder,
                   poisoned, arg>>

Panic_leak(t, message) ==
    /\ pc' = [pc EXCEPT ![t] = "panicked"]
    /\ result' = [result EXCEPT ![t] = message]
    /\ UNCHANGED <<apiVars, handleVars, appended, blocks, op, arg, ret,
                   poisoned, lockHolder>>

\* a panic unwinds the calling thread: the guard is dropped while the
\* thread is panicking, which poisons the mutex and releases it.  arg
\* keeps the block the panicked call was given.
Panic(t, message) ==
    /\ pc' = [pc EXCEPT ![t] = "panicked"]
    /\ result' = [result EXCEPT ![t] = message]
    /\ poisoned' = TRUE
    /\ lockHolder' = 0
    /\ UNCHANGED <<apiVars, handleVars, appended, blocks, op, arg, ret>>

\* ------------------------------------------------------------- add_block
InvalidIndex_stale(block, last) == block.index < last.index + 1

\* block.index != last.index + 1
InvalidIndex(block, last) == block.index # last.index + 1

InvalidPreviousHash_zero(block, last) == block.previous_hash = ZeroHash

InvalidPreviousHash_skip(block, last) == FALSE

\* block.previous_hash != last.hash
InvalidPreviousHash(block, last) == block.previous_hash # last.hash

InvalidHash_trusted(block) == block.hash = ZeroHash

\* block.hash != block.calculate_hash()
InvalidHash(block) == block.hash # BlockHashOf(block)

PushBlock_front(seq, block) == <<block>> \o seq

\* Vec::push
PushBlock(seq, block) == Append(seq, block)

\* self.blocks.lock().unwrap() on a sound mutex
AddBlockLock(t, block) ==
    /\ pc[t] = "idle"
    /\ MutexAvailable(lockHolder)
    /\ ~poisoned
    /\ lockHolder' = t
    /\ pc' = [pc EXCEPT ![t] = "add_check_index"]
    /\ op' = [op EXCEPT ![t] = "add_block"]
    /\ arg' = [arg EXCEPT ![t] = block]
    /\ result' = [result EXCEPT ![t] = "none"]
    /\ ret' = [ret EXCEPT ![t] = NoRet]
    /\ UNCHANGED <<apiVars, handleVars, appended, blocks, poisoned>>

AddBlockCheckIndex_hashfirst(t) ==
    /\ pc[t] = "add_check_index"
    /\ IF InvalidHash(arg[t])
       THEN Panic(t, "Invalid hash")
       ELSE IF InvalidIndex(arg[t], Last(blocks))
       THEN Panic(t, "Invalid index")
       ELSE /\ pc' = [pc EXCEPT ![t] = "add_check_previous_hash"]
            /\ UNCHANGED <<apiVars, handleVars, appended, blocks, lockHolder,
                           poisoned, op, arg, result, ret>>

\* if block.index != last_block.index + 1 { panic!("Invalid index") }
AddBlockCheckIndex(t) ==
    /\ pc[t] = "add_check_index"
    /\ IF InvalidIndex(arg[t], Last(blocks))
       THEN Panic(t, "Invalid index")
       ELSE /\ pc' = [pc EXCEPT ![t] = "add_check_previous_hash"]
            /\ UNCHANGED <<apiVars, handleVars, appended, blocks, lockHolder,
                           poisoned, op, arg, result, ret>>

AddBlockCheckPreviousHash(t) ==
    /\ pc[t] = "add_check_previous_hash"
    /\ IF InvalidPreviousHash(arg[t], Last(blocks))
       THEN Panic(t, "Invalid previous_hash")
       ELSE /\ pc' = [pc EXCEPT ![t] = "add_check_hash"]
            /\ UNCHANGED <<apiVars, handleVars, appended, blocks, lockHolder,
                           poisoned, op, arg, result, ret>>

AddBlockCheckHash(t) ==
    /\ pc[t] = "add_check_hash"
    /\ IF InvalidHash(arg[t])
       THEN Panic(t, "Invalid hash")
       ELSE /\ pc' = [pc EXCEPT ![t] = "add_push"]
            /\ UNCHANGED <<apiVars, handleVars, appended, blocks, lockHolder,
                           poisoned, op, arg, result, ret>>

AddBlockPush_alias(t) ==
    /\ pc[t] = "add_push"
    /\ blocks' = PushBlock(blocks, arg[t])
    /\ ret' = [u \in Threads |->
                IF ret[u].kind = "vec"
                THEN [kind |-> "vec", blocks |-> blocks']
                ELSE IF ret[u].kind = "block"
                THEN [kind |-> "block", block |-> Last(blocks')]
                ELSE ret[u]]
    /\ pc' = [pc EXCEPT ![t] = "add_return"]
    /\ UNCHANGED <<apiVars, handleVars, appended, lockHolder, poisoned, op,
                   arg, result>>

AddBlockPush_drain(t) ==
    /\ pc[t] = "add_push"
    /\ blocks' = PushBlock(blocks, [arg[t] EXCEPT !.transactions = pool])
    /\ pool' = <<>>
    /\ pc' = [pc EXCEPT ![t] = "add_return"]
    /\ UNCHANGED <<handleVars, appended, lockHolder, poisoned, op,
                   arg, result, ret, poolHolder, txArg, submitted>>

\* blocks.push(block.clone())
AddBlockPush(t) ==
    /\ pc[t] = "add_push"
    /\ blocks' = PushBlock(blocks, arg[t])
    /\ pc' = [pc EXCEPT ![t] = "add_return"]
    /\ UNCHANGED <<apiVars, handleVars, appended, lockHolder, poisoned, op,
                   arg, result, ret>>

\* end of add_block: the guard is dropped
AddBlockReturn(t) ==
    /\ pc[t] = "add_return"
    /\ lockHolder' = 0
    /\ pc' = [pc EXCEPT ![t] = "idle"]
    /\ result' = [result EXCEPT ![t] = "ok"]
    /\ arg' = [arg EXCEPT ![t] = NoBlock]
    /\ appended' = appended + 1
    /\ UNCHANGED <<apiVars, handleVars, blocks, poisoned, op, ret>>

\* -------------------------------------------------------- get_last_block
LastBlockOf(seq) == seq[Len(seq)]

GetLastBlockLock(t) ==
    /\ pc[t] = "idle"
    /\ MutexAvailable(lockHolder)
    /\ ~poisoned
    /\ lockHolder' = t
    /\ pc' = [pc EXCEPT ![t] = "last_clone"]
    /\ op' = [op EXCEPT ![t] = "get_last_block"]
    /\ result' = [result EXCEPT ![t] = "none"]
    /\ ret' = [ret EXCEPT ![t] = NoRet]
    /\ UNCHANGED <<apiVars, handleVars, appended, blocks, poisoned, arg>>

\* blocks[blocks.len() - 1].clone(), return, guard dropped
GetLastBlockReturn(t) ==
    /\ pc[t] = "last_clone"
    /\ ret' = [ret EXCEPT ![t] = [kind |-> "block", block |-> LastBlockOf(blocks)]]
    /\ result' = [result EXCEPT ![t] = "ok"]
    /\ lockHolder' = 0
    /\ pc' = [pc EXCEPT ![t] = "idle"]
    /\ UNCHANGED <<apiVars, handleVars, appended, blocks, poisoned, op, arg>>

\* -------------------------------------------------------- get_all_blocks
GetAllBlocksLock(t) ==
    /\ pc[t] = "idle"
    /\ MutexAvailable(lockHolder)
    /\ ~poisoned
    /\ lockHolder' = t
    /\ pc' = [pc EXCEPT ![t] = "all_clone"]
    /\ op' = [op EXCEPT ![t] = "get_all_blocks"]
    /\ result' = [result EXCEPT ![t] = "none"]
    /\ ret' = [ret EXCEPT ![t] = NoRet]
    /\ UNCHANGED <<apiVars, handleVars, appended, blocks, poisoned, arg>>

\* blocks.clone(), return, guard dropped
GetAllBlocksReturn(t) ==
    /\ pc[t] = "all_clone"
    /\ ret' = [ret EXCEPT ![t] = [kind |-> "vec", blocks |-> blocks]]
    /\ result' = [result EXCEPT ![t] = "ok"]
    /\ lockHolder' = 0
    /\ pc' = [pc EXCEPT ![t] = "idle"]
    /\ UNCHANGED <<apiVars, handleVars, appended, blocks, poisoned, op, arg>>

\* ------------------------------------------------------- GET /blocks
GetBlocksLock_unguarded(t) ==
    /\ pc[t] = "idle"
    /\ ~poisoned
    /\ lockHolder' = t
    /\ pc' = [pc EXCEPT ![t] = "blocks_json"]
    /\ op' = [op EXCEPT ![t] = "get_blocks"]
    /\ result' = [result EXCEPT ![t] = "none"]
    /\ ret' = [ret EXCEPT ![t] = NoRet]
    /\ UNCHANGED <<apiVars, handleVars, appended, blocks, poisoned, arg>>

\* get_blocks: shared_blockchain.lock().unwrap() on a sound mutex.  The
\* mutex is the one that guards the block sequence.
GetBlocksLock(t) ==
    /\ pc[t] = "idle"
    /\ MutexAvailable(lockHolder)
    /\ ~poisoned
    /\ lockHolder' = t
    /\ pc' = [pc EXCEPT ![t] = "blocks_json"]
    /\ op' = [op EXCEPT ![t] = "get_blocks"]
    /\ result' = [result EXCEPT ![t] = "none"]
    /\ ret' = [ret EXCEPT ![t] = NoRet]
    /\ UNCHANGED <<apiVars, handleVars, appended, blocks, poisoned, arg>>

\* HttpResponse::Ok().json(&blockchain.blocks): the body lists the blocks
\* in ledger order; the guard is dropped when the handler returns
GetBlocksReturn(t) ==
    /\ pc[t] = "blocks_json"
    /\ ret' = [ret EXCEPT ![t] = [kind |-> "json", blocks |-> blocks]]
    /\ result' = [result EXCEPT ![t] = "ok"]
    /\ lockHolder' = 0
    /\ pc' = [pc EXCEPT ![t] = "idle"]
    /\ UNCHANGED <<apiVars, handleVars, appended, blocks, poisoned, op, arg>>

\* ------------------------------------------------- POST /transactions
\* TransactionPool::push
PoolPush(queue, transaction) == Append(queue, transaction)

\* add_transaction: the Transaction is built from the request body and
\* shared_transaction_pool.lock().unwrap() takes the pool mutex.  Nothing
\* panics while the pool guard is alive, so the pool mutex is never
\* poisoned.
AddTransactionLock(t, transaction) ==
    /\ pc[t] = "idle"
    /\ Len(submitted) < MaxPool
    /\ MutexAvailable(poolHolder)
    /\ poolHolder' = t
    /\ txArg' = [txArg EXCEPT ![t] = transaction]
    /\ submitted' = Append(submitted, transaction)
    /\ pc' = [pc EXCEPT ![t] = "tx_push"]
    /\ op' = [op EXCEPT ![t] = "add_transaction"]
    /\ result' = [result EXCEPT ![t] = "none"]
    /\ ret' = [ret EXCEPT ![t] = NoRet]
    /\ UNCHANGED <<handleVars, appended, blocks, lockHolder, poisoned, arg,
                   pool>>

AddTransactionPush_dedup(t) ==
    /\ pc[t] = "tx_push"
    /\ pool' = IF \E i \in 1..Len(pool) : pool[i] = txArg[t]
               THEN pool
               ELSE PoolPush(pool, txArg[t])
    /\ pc' = [pc EXCEPT ![t] = "tx_return"]
    /\ UNCHANGED <<handleVars, appended, blocks, lockHolder, poisoned, op,
                   arg, result, ret, poolHolder, txArg, submitted>>

\* transaction_pool.push(transaction)
AddTransactionPush(t) ==
    /\ pc[t] = "tx_push"
    /\ pool' = PoolPush(pool, txArg[t])
    /\ pc' = [pc EXCEPT ![t] = "tx_return"]
    /\ UNCHANGED <<handleVars, appended, blocks, lockHolder, poisoned, op,
                   arg, result, ret, poolHolder, txArg, submitted>>

\* HttpResponse::Ok(); the pool guard is dropped
AddTransactionReturn(t) ==
    /\ pc[t] = "tx_return"
    /\ poolHolder' = 0
    /\ txArg' = [txArg EXCEPT ![t] = NoTransaction]
    /\ result' = [result EXCEPT ![t] = "ok"]
    /\ pc' = [pc EXCEPT ![t] = "idle"]
    /\ UNCHANGED <<handleVars, appended, blocks, lockHolder, poisoned, op,
                   arg, ret, pool, submitted>>

\* ------------------------------------------------- Blockchain values
\* Blockchain::new(): a new Arc<Mutex<Vec<Block>>> holding the genesis
\* block; allocations are numbered in the order they are made
NewBlockchain(h) ==
    /\ handles[h] = 0
    /\ \E a \in LedgerIds :
          /\ arcs[a] = Unallocated
          /\ \A b \in LedgerIds : b < a => arcs[b] # Unallocated
          /\ arcs' = [arcs EXCEPT ![a] = [blocks |-> <<create_genesis_block>>,
                                          poisoned |-> FALSE]]
          /\ handles' = [handles EXCEPT ![h] = a]
          /\ family' = [family EXCEPT ![h] = a]
    /\ event' = [NoEvent EXCEPT !.op = "new", !.handle = h, !.result = "ok"]
    /\ UNCHANGED <<blocks, lockHolder, poisoned, pc, op, arg, result, ret,
                   appended, apiVars>>

CloneBlockchain_deep(h, g) ==
    /\ h # g
    /\ handles[h] = 0
    /\ handles[g] # 0
    /\ \E a \in LedgerIds :
          /\ arcs[a] = Unallocated
          /\ \A b \in LedgerIds : b < a => arcs[b] # Unallocated
          /\ arcs' = [arcs EXCEPT ![a] = arcs[handles[g]]]
          /\ handles' = [handles EXCEPT ![h] = a]
    /\ family' = [family EXCEPT ![h] = family[g]]
    /\ event' = [NoEvent EXCEPT !.op = "clone", !.handle = h, !.result = "ok"]
    /\ UNCHANGED <<blocks, lockHolder, poisoned, pc, op, arg, result, ret,
                   appended, apiVars>>

\* #[derive(Clone)] on Blockchain clones its one field, the Arc: the new
\* value points to the same allocation
CloneBlockchain(h, g) ==
    /\ h # g
    /\ handles[h] = 0
    /\ handles[g] # 0
    /\ handles' = [handles EXCEPT ![h] = handles[g]]
    /\ family' = [family EXCEPT ![h] = family[g]]
    /\ event' = [NoEvent EXCEPT !.op = "clone", !.handle = h, !.result = "ok"]
    /\ UNCHANGED <<blocks, lockHolder, poisoned, pc, op, arg, result, ret,
                   appended, apiVars, arcs>>

\* the outcome of add_block(block) on the vector seq behind a sound mutex
AddBlockOutcome(block, seq) ==
    IF InvalidIndex(block, Last(seq)) THEN "Invalid index"
    ELSE IF InvalidPreviousHash(block, Last(seq)) THEN "Invalid previous_hash"
    ELSE IF InvalidHash(block) THEN "Invalid hash"
    ELSE "ok"

\* add_block through the value h, from lock to return or panic in one
\* step (the mutex makes the calls on one allocation take turns).  A
\* panic ends the calling thread, not the Blockchain value.
HandleAddBlock(h, block) ==
    /\ handles[h] # 0
    /\ LET a == handles[h]
           outcome == IF arcs[a].poisoned THEN "PoisonError"
                      ELSE AddBlockOutcome(block, arcs[a].blocks)
       IN  /\ arcs' = [arcs EXCEPT ![a] =
                         IF outcome = "ok"
                         THEN [blocks |-> PushBlock(arcs[a].blocks, block),
                               poisoned |-> FALSE]
                         ELSE [blocks |-> arcs[a].blocks, poisoned |-> TRUE]]
           /\ event' = [NoEvent EXCEPT !.op = "add_block", !.handle = h,
                                       !.result = outcome,
                                       !.block = IF outcome = "ok"
                                                 THEN block ELSE NoBlock]
    /\ UNCHANGED <<blocks, lockHolder, poisoned, pc, op, arg, result, ret,
                   appended, apiVars, handles, family>>

\* get_all_blocks through the value h
HandleGetAllBlocks(h) ==
    /\ handles[h] # 0
    /\ event' = IF arcs[handles[h]].poisoned
                THEN [NoEvent EXCEPT !.op = "get_all_blocks", !.handle = h,
                                     !.result = "PoisonError"]
                ELSE [NoEvent EXCEPT !.op = "get_all_blocks", !.handle = h,
                                     !.result = "ok",
                                     !.blocks = arcs[handles[h]].blocks]
    /\ UNCHANGED <<blocks, lockHolder, poisoned, pc, op, arg, result, ret,
                   appended, apiVars, arcs, handles, family>>

\* ------------------------------------------------------ the specification
Methods == {"add_block", "get_last_block", "get_all_blocks"}

Next ==
    \E t \in Threads :
        \/ \E method \in Methods : LockPoisoned(t, method)
        \/ \E block \in Block : AddBlockLock(t, block)
        \/ AddBlockCheckIndex(t)
        \/ AddBlockCheckPreviousHash(t)
        \/ AddBlockCheckHash(t)
        \/ AddBlockPush(t)
        \/ AddBlockReturn(t)
        \/ GetLastBlockLock(t)
        \/ GetLastBlockReturn(t)
        \/ GetAllBlocksLock(t)
        \/ GetAllBlocksReturn(t)

Spec == Init /\ [][Next]_vars

\* The gateway beside the ledger's direct callers: thread 1 is the node's
\* own thread, which calls the Blockchain methods; the other threads are
\* the HTTP server's workers, which run the two handlers.
Nodes == {1}
Workers == Threads \ Nodes

NextApi ==
    \/ \E t \in Nodes :
        \/ \E method \in Methods : LockPoisoned(t, method)
        \/ \E block \in CarryingBlock : AddBlockLock(t, block)
        \/ AddBlockCheckIndex(t)
        \/ AddBlockCheckPreviousHash(t)
        \/ AddBlockCheckHash(t)
        \/ AddBlockPush(t)
        \/ AddBlockReturn(t)
        \/ GetLastBlockLock(t)
        \/ GetLastBlockReturn(t)
        \/ GetAllBlocksLock(t)
        \/ GetAllBlocksReturn(t)
    \/ \E t \in Workers :
        \/ LockPoisoned(t, "get_blocks")
        \/ GetBlocksLock(t)
        \/ GetBlocksReturn(t)
        \/ \E transaction \in Transaction : AddTransactionLock(t, transaction)
        \/ AddTransactionPush(t)
        \/ AddTransactionReturn(t)

SpecApi == Init /\ [][NextApi]_vars

\* the steps of a call after it has taken its mutex: straight-line code
\* that waits for nothing, so a running thread takes them
Continue(t) ==
    \/ AddBlockCheckIndex(t)
    \/ AddBlockCheckPreviousHash(t)
    \/ AddBlockCheckHash(t)
    \/ AddBlockPush(t)
    \/ AddBlockReturn(t)
    \/ GetLastBlockReturn(t)
    \/ GetAllBlocksReturn(t)
    \/ GetBlocksReturn(t)
    \/ AddTransactionPush(t)
    \/ AddTransactionReturn(t)

SpecApiFair == SpecApi /\ \A t \in Threads : WF_vars(Continue(t))

\* every thread calls the ledger's methods or serves GET /blocks
NextReaders ==
    \/ Next
    \/ \E t \in Threads :
        \/ LockPoisoned(t, "get_blocks")
        \/ GetBlocksLock(t)
        \/ GetBlocksReturn(t)

SpecReaders == Init /\ [][NextReaders]_vars

\* every thread serves POST /transactions
NextPool ==
    \E t \in Threads :
        \/ \E transaction \in Transaction : AddTransactionLock(t, transaction)
        \/ AddTransactionPush(t)
        \/ AddTransactionReturn(t)

SpecPool == Init /\ [][NextPool]_vars

\* Blockchain values made by new() and clone(), and calls through them
NextHandles ==
    \E h \in HandleIds :
        \/ NewBlockchain(h)
        \/ \E g \in HandleIds : CloneBlockchain(h, g)
        \/ \E block \in CarryingBlock : HandleAddBlock(h, block)
        \/ HandleGetAllBlocks(h)

SpecHandles == Init /\ [][NextHandles]_vars

\* ------------------------------------------------------------ properties
\* positions of add_block at which the candidate has not been pushed yet
AddPending == {"add_check_index", "add_check_previous_hash",
               "add_check_hash", "add_push"}

AddHolding == AddPending \cup {"add_return"}

IsPrefix(s, t) ==
    /\ Len(s) <= Len(t)
    /\ \A i \in 1..Len(s) : s[i] = t[i]

\* C1: in every reachable state the first block has index 0 and every
\* adjacent pair is linked: the index grows by one, previous_hash is the
\* predecessor's hash and the stored hash is the recomputed one.
ChainInvariant ==
    /\ blocks[1].index = 0
    /\ \A i \in 2..Len(blocks) :
          /\ blocks[i].index = blocks[i - 1].index + 1
          /\ blocks[i].previous_hash = blocks[i - 1].hash
          /\ blocks[i].hash =
                calculate_hash(blocks[i].index, blocks[i].nonce,
                               blocks[i].previous_hash, blocks[i].transactions)

\* blocks were accepted and a later append was rejected
ChainInvariantWitness ==
    /\ Len(blocks) >= 2
    /\ poisoned
    /\ \E t \in Threads : pc[t] = "panicked" /\ op[t] = "add_block"

\* C2: a fresh ledger holds exactly one block, with index 0, nonce 0, the
\* zero previous_hash and no transactions, and get_last_block on it returns
\* that block.
FreshLedger ==
    /\ (\A t \in Threads : op[t] = "none") => Len(blocks) = 1
    /\ Len(blocks) = 1 =>
          /\ blocks[1].index = 0
          /\ blocks[1].nonce = 0
          /\ blocks[1].previous_hash = ZeroHash
          /\ blocks[1].transactions = <<>>
          /\ \A t \in Threads :
                (op[t] = "get_last_block" /\ result[t] = "ok")
                   => ret[t] = [kind |-> "block", block |-> blocks[1]]

FreshLedgerWitness ==
    /\ Len(blocks) = 1
    /\ ~poisoned
    /\ \A t \in Threads : op[t] # "add_block"
    /\ \E t \in Threads : op[t] = "get_last_block" /\ result[t] = "ok"

\* C3: a candidate that continues the last block (next index, linked
\* previous_hash, recomputed hash) is accepted whatever the ledger state:
\* its call takes the lock without panicking, passes the checks, its push
\* extends the sequence by exactly that block, and a get_last_block that
\* returns while it is the last block returns it.
ValidAppendSucceeds ==
    [][\A t \in Threads :
         /\ (pc[t] = "idle" /\ op'[t] = "add_block" /\ pc'[t] # "idle")
            => pc'[t] = "add_check_index"
         /\ (/\ pc[t] \in AddPending
             /\ arg[t].index = Last(blocks).index + 1
             /\ arg[t].previous_hash = Last(blocks).hash
             /\ arg[t].hash =
                   calculate_hash(arg[t].index, arg[t].nonce,
                                  arg[t].previous_hash, arg[t].transactions)
             /\ pc'[t] # pc[t])
            => /\ pc'[t] # "panicked"
               /\ pc[t] = "add_push" => blocks' = Append(blocks, arg[t])
               /\ pc[t] # "add_push" => blocks' = blocks
         /\ (pc[t] = "last_clone" /\ pc'[t] # pc[t])
            => ret'[t] = [kind |-> "block", block |-> Last(blocks)]
      ]_vars

\* C4: a candidate whose index is not last.index + 1 never gets past the
\* index check: its call ends in a panic, there or at the lock, and the
\* sequence stays as it was.
BadIndexRejected ==
    [][\A t \in Threads :
         /\ (pc[t] = "idle" /\ pc'[t] = "panicked") => blocks' = blocks
         /\ (pc[t] \in AddPending /\ arg[t].index # Last(blocks).index + 1)
            => /\ blocks' = blocks
               /\ pc'[t] \in {"add_check_index", "panicked"}
               /\ (pc[t] = "add_check_index" /\ pc'[t] # pc[t])
                     => result'[t] = "Invalid index"
      ]_vars

\* rejected for a stale index and rejected for an index too far ahead
BadIndexRejectedWitness ==
    \E t \in Threads :
        /\ pc[t] = "panicked" /\ result[t] = "Invalid index"
        /\ arg[t].index # Last(blocks).index + 1
        /\ \/ Len(blocks) >= 2 /\ arg[t].index = 1
           \/ arg[t].index > Len(blocks)

\* C5: a candidate whose previous_hash is not last.hash never gets past
\* the previous_hash check, also when its index and hash are valid: its
\* call ends in a panic and the sequence stays as it was.
BadPreviousHashRejected ==
    [][\A t \in Threads :
         /\ (pc[t] = "idle" /\ pc'[t] = "panicked") => blocks' = blocks
         /\ (pc[t] \in AddPending /\ arg[t].previous_hash # Last(blocks).hash)
            => /\ blocks' = blocks
               /\ pc'[t] \in {"add_check_index",
                              "add_check_previous_hash", "panicked"}
               /\ (pc[t] = "add_check_previous_hash" /\ pc'[t] # pc[t])
                     => result'[t] = "Invalid previous_hash"
      ]_vars

\* rejected for its previous_hash alone
BadPreviousHashRejectedWitness ==
    \E t \in Threads :
        /\ pc[t] = "panicked" /\ result[t] = "Invalid previous_hash"
        /\ Len(blocks) >= 2
        /\ arg[t].index = Last(blocks).index + 1
        /\ arg[t].previous_hash # Last(blocks).hash
        /\ arg[t].hash = BlockHashOf(arg[t])

\* C6: a candidate whose stored hash is not the hash recomputed from its
\* index, nonce, previous_hash and transactions never reaches the push,
\* also when its index and previous_hash are valid: its call ends in a
\* panic and the sequence stays as it was.
BadHashRejected ==
    [][\A t \in Threads :
         /\ (pc[t] = "idle" /\ pc'[t] = "panicked") => blocks' = blocks
         /\ (/\ pc[t] \in AddPending
             /\ arg[t].hash #
                   calculate_hash(arg[t].index, arg[t].nonce,
                                  arg[t].previous_hash, arg[t].transactions))
            => /\ blocks' = blocks
               /\ pc'[t] \in {"add_check_index",
                              "add_check_previous_hash", "add_check_hash",
                              "panicked"}
               /\ (pc[t] = "add_check_hash" /\ pc'[t] # pc[t])
                     => result'[t] = "Invalid hash"
      ]_vars

\* rejected for its stored hash alone
BadHashRejectedWitness ==
    \E t \in Threads :
        /\ pc[t] = "panicked" /\ result[t] = "Invalid hash"
        /\ Len(blocks) >= 2
        /\ arg[t].index = Last(blocks).index + 1
        /\ arg[t].previous_hash = Last(blocks).hash
        /\ arg[t].hash # BlockHashOf(arg[t])

\* C7: with several threads calling add_block, the accepted blocks carry
\* the indices 0, 1, 2, ... with no index twice, and no two threads are
\* inside add_block's locked region together, so of two candidates built
\* for the same next index at most one is pushed.
SerializedAppends ==
    /\ \A i \in DOMAIN blocks : blocks[i].index = i - 1
    /\ \A i, j \in DOMAIN blocks :
          i # j => blocks[i].index # blocks[j].index
    /\ \A t, u \in Threads :
          (t # u /\ pc[t] \in AddHolding) => pc[u] \notin AddHolding
    /\ \A t \in Threads :
          pc[t] = "add_return" => arg[t] = Last(blocks)

\* one thread's block was accepted and another thread's candidate for the
\* same index is at the index check
SerializedAppendsWitness ==
    \E t, u \in Threads :
        /\ t # u
        /\ op[t] = "add_block" /\ result[t] = "ok"
        /\ pc[u] = "add_check_index"
        /\ arg[u].index = Last(blocks).index
        /\ arg[u].index >= 1

\* C8: get_last_block and get_all_blocks never fail: no read panics, and
\* every read that returned gave a block, respectively a non-empty
\* sequence.
ReadsNeverFail ==
    /\ Len(blocks) >= 1
    /\ \A t \in Threads :
          /\ pc[t] = "panicked" => op[t] = "add_block"
          /\ (op[t] = "get_last_block" /\ result[t] = "ok")
                => ret[t].kind = "block"
          /\ (op[t] = "get_all_blocks" /\ result[t] = "ok")
                => (ret[t].kind = "vec" /\ Len(ret[t].blocks) >= 1)

\* C9: the sequence before any step is a prefix of the sequence after it,
\* and it grows by at most the one block pushed by add_block.
AppendOnly ==
    [][/\ IsPrefix(blocks, blocks')
       /\ Len(blocks') <= Len(blocks) + 1
       /\ blocks' # blocks =>
             \E t \in Threads :
                 /\ pc[t] = "add_push"
                 /\ pc'[t] = "add_return"
                 /\ Last(blocks') = arg[t]
      ]_vars

AppendOnlyWitness ==
    /\ Len(blocks) = MaxIndex + 1
    /\ \E t \in Threads : op[t] = "get_all_blocks" /\ result[t] = "ok"
                          /\ Len(ret[t].blocks) = 2

\* C10: a block that is already in the ledger is rejected when it is
\* passed to add_block again, and the sequence stays as it was; after
\* add_block(B1) twice on a fresh ledger, get_all_blocks returns [G, B1].
DuplicateAppendRejected ==
    [][\A t \in Threads :
         /\ (/\ pc[t] = "add_check_index"
             /\ \E i \in DOMAIN blocks : blocks[i] = arg[t])
            => /\ blocks' = blocks
               /\ pc'[t] \in {"add_check_index", "panicked"}
         /\ (/\ blocks = <<create_genesis_block,
                           NewBlock(1, 0, create_genesis_block.hash, <<>>)>>
             /\ \E u \in Threads :
                   /\ pc[u] = "panicked"
                   /\ op[u] = "add_block"
                   /\ arg[u] = blocks[2]
             /\ pc[t] = "idle"
             /\ op'[t] = "get_all_blocks"
             /\ pc'[t] # "idle")
            => pc'[t] = "all_clone"
         /\ (pc[t] = "all_clone" /\ pc'[t] = "idle")
            => ret'[t] = [kind |-> "vec", blocks |-> blocks]
      ]_vars

\* C11: after N add_block calls have succeeded on a fresh ledger, with any
\* number of rejected calls in between, every get_all_blocks call returns,
\* and what it returns has N + 1 blocks, each linked to its predecessor by
\* index, previous_hash and recomputed hash.
LengthAfterAppends ==
    [][\A t \in Threads :
         /\ (pc[t] = "idle" /\ op'[t] = "get_all_blocks" /\ pc'[t] # "idle")
            => pc'[t] = "all_clone"
         /\ (pc[t] = "all_clone" /\ pc'[t] = "idle")
            => /\ ret'[t].kind = "vec"
               /\ Len(ret'[t].blocks) = appended + 1
               /\ \A i \in 2..Len(ret'[t].blocks) :
                     /\ ret'[t].blocks[i].index
                           = ret'[t].blocks[i - 1].index + 1
                     /\ ret'[t].blocks[i].previous_hash
                           = ret'[t].blocks[i - 1].hash
                     /\ ret'[t].blocks[i].hash
                           = BlockHashOf(ret'[t].blocks[i])
      ]_vars

\* C12: a read never sees a half-appended block.  From the step at which
\* get_last_block, get_all_blocks or GET /blocks takes the mutex to the step
\* at which it returns, the block sequence does not change and no add_block
\* call is between its lock and its return, and the value returned is that
\* sequence (or its last block).
Reading == {"last_clone", "all_clone", "blocks_json"}

PoolKeepsSubmissions ==
    [][/\ IsPrefix(pool, pool')
       /\ IsPrefix(pool', submitted')
       /\ poolHolder' = 0 => pool' = submitted'
       /\ \A t \in Threads :
            /\ op'[t] = "add_transaction" => pc'[t] # "panicked"
            /\ (pc[t] = "tx_push" /\ pc'[t] # "tx_push")
               => pool' = Append(pool, txArg[t])
            /\ (pc[t] = "tx_return" /\ pc'[t] # "tx_return")
               => pc'[t] = "idle" /\ result'[t] = "ok"
      ]_vars

\* two handlers have pushed the same transaction and both are in the pool
PoolKeepsSubmissionsWitness ==
    \E t, u \in Threads :
        /\ t # u
        /\ op[t] = "add_transaction" /\ pc[t] = "idle"
        /\ op[u] = "add_transaction" /\ pc[u] = "idle"
        /\ Len(pool) = 2
        /\ pool[1] = pool[2]

\* C14: a rejected add_block harms only its own call.  Once some call has
\* panicked at one of the three checks, an add_block call that starts still
\* takes the mutex and reaches the checks, a candidate that continues the
\* last block is pushed, and the only block a step adds is the candidate of
\* the call making the step (a rejected candidate is not added afterwards).
Rejections == {"Invalid index", "Invalid previous_hash", "Invalid hash"}

UsableAfterRejection ==
    [][\A t \in Threads :
         /\ (/\ \E u \in Threads :
                   pc[u] = "panicked" /\ result[u] \in Rejections
             /\ pc[t] = "idle"
             /\ op'[t] = "add_block"
             /\ pc'[t] # "idle")
            => pc'[t] = "add_check_index"
         /\ (pc[t] = "add_push" /\ pc'[t] # "add_push")
            => /\ pc'[t] = "add_return"
               /\ blocks' = Append(blocks, arg[t])
         /\ (pc[t] # "add_push" \/ pc'[t] = "add_push") /\ blocks' # blocks
            => \E u \in Threads : pc[u] = "add_push" /\ pc'[u] = "add_return"
      ]_vars

\* C15: add_block checks index, then previous_hash, then hash, holding the
\* mutex throughout and against a last block that does not change in
\* between; a rejected candidate panics with the message of the first rule
\* it breaks in that order, and a block is pushed only by a call whose
\* candidate satisfies all three rules.
BreaksIndex(block, last) == block.index # last.index + 1
BreaksPreviousHash(block, last) == block.previous_hash # last.hash
BreaksHash(block) ==
    block.hash # calculate_hash(block.index, block.nonce,
                                block.previous_hash, block.transactions)

FirstBrokenRule(block, last) ==
    IF BreaksIndex(block, last) THEN "Invalid index"
    ELSE IF BreaksPreviousHash(block, last) THEN "Invalid previous_hash"
    ELSE IF BreaksHash(block) THEN "Invalid hash"
    ELSE "none"

ChecksInOrder ==
    [][\A t \in Threads :
         /\ pc[t] \in AddPending
            => /\ lockHolder = t
               /\ pc[t] # "add_push" => blocks' = blocks
         /\ (pc[t] \in AddPending /\ pc'[t] # pc[t])
            => \/ /\ pc'[t] = "panicked"
                  /\ result'[t] = FirstBrokenRule(arg[t], Last(blocks))
                  /\ result'[t] # "none"
                  /\ pc[t] = CASE result'[t] = "Invalid index"
                                    -> "add_check_index"
                               [] result'[t] = "Invalid previous_hash"
                                    -> "add_check_previous_hash"
                               [] OTHER -> "add_check_hash"
               \/ /\ pc[t] = "add_check_index"
                  /\ pc'[t] = "add_check_previous_hash"
                  /\ ~BreaksIndex(arg[t], Last(blocks))
               \/ /\ pc[t] = "add_check_previous_hash"
                  /\ pc'[t] = "add_check_hash"
                  /\ ~BreaksPreviousHash(arg[t], Last(blocks))
               \/ /\ pc[t] = "add_check_hash"
                  /\ pc'[t] = "add_push"
                  /\ ~BreaksHash(arg[t])
               \/ /\ pc[t] = "add_push"
                  /\ pc'[t] = "add_return"
                  /\ FirstBrokenRule(arg[t], Last(blocks)) = "none"
                  /\ blocks' = Append(blocks, arg[t])
      ]_vars

\* after one successful append, a candidate that breaks all three rules
\* was rejected with "Invalid index"
ChecksInOrderWitness ==
    \E t \in Threads :
        /\ pc[t] = "panicked"
        /\ op[t] = "add_block"
        /\ result[t] = "Invalid index"
        /\ BreaksIndex(arg[t], Last(blocks))
        /\ BreaksPreviousHash(arg[t], Last(blocks))
        /\ BreaksHash(arg[t])
        /\ Len(blocks) = 2

\* C16: the pool and the ledger do not touch one another.  A step of
\* add_transaction leaves the block sequence and the ledger mutex as they
\* were, a step of a read or of add_block leaves the pool and the pool mutex
\* as they were, and the only change to the block sequence is the push of a
\* call's own candidate, transactions included, so nothing moves from the
\* pool into a block.
PoolSteps == {"tx_push", "tx_return"}

PoolLedgerIndependent ==
    [][\A t \in Threads :
         pc'[t] # pc[t]
         => IF pc[t] \in PoolSteps \/ pc'[t] \in PoolSteps
            THEN /\ blocks' = blocks
                 /\ lockHolder' = lockHolder
                 /\ poisoned' = poisoned
            ELSE /\ pool' = pool
                 /\ poolHolder' = poolHolder
                 /\ \/ blocks' = blocks
                    \/ /\ pc[t] = "add_push"
                       /\ blocks' = Append(blocks, arg[t])
                       /\ Last(blocks').transactions = arg[t].transactions
      ]_vars

\* the pool holds a transaction that no block carries, next to a ledger
\* that has grown and has served GET /blocks
PoolLedgerIndependentWitness ==
    /\ Len(blocks) >= 2
    /\ Len(pool) >= 1
    /\ \A i \in 1..Len(blocks) :
          \A j \in 1..Len(blocks[i].transactions) :
             blocks[i].transactions[j] # pool[1]
    /\ \E t \in Workers : op[t] = "get_blocks" /\ pc[t] = "idle"

\* C17: get_all_blocks and get_last_block hand out copies.  A value a read
\* has returned changes only when its own thread starts another call, never
\* by a step of another thread such as a push, and no step of a read, from
\* taking the mutex to returning, changes the block sequence.
DirectReads == {"last_clone", "all_clone"}

ReadsReturnCopies ==
    [][\A t \in Threads :
         /\ ret'[t] # ret[t] => pc'[t] # pc[t]
         /\ (pc[t] = "idle" /\ ret[t] # NoRet /\ blocks' # blocks)
            => ret'[t] = ret[t]
         /\ (pc'[t] # pc[t] /\ (pc[t] \in DirectReads \/ pc'[t] \in DirectReads))
            => blocks' = blocks
      ]_vars

\* get_all_blocks returned genesis alone and two blocks have been appended
\* since
ReadsReturnCopiesWitness ==
    \E t, u \in Threads :
        /\ pc[t] = "idle"
        /\ ret[t] = [kind |-> "vec", blocks |-> <<create_genesis_block>>]
        /\ Len(blocks) = 3
        /\ pc[u] = "idle"
        /\ op[u] = "add_block"

\* C18: a call holds exactly the one mutex of the structure it works on,
\* from its first step to its last: the ledger mutex during a read or an
\* add_block, the pool mutex during add_transaction, never both, and none
\* once it has returned or panicked.  When running threads keep taking their
\* steps, every call that has started ends, by returning or by its panic,
\* and with it the mutex it holds is released.
LedgerSteps == AddHolding \cup Reading
Ended == {"idle", "panicked"}

LockDiscipline ==
    /\ [](\A t \in Threads :
            /\ pc[t] \in LedgerSteps <=> lockHolder = t
            /\ pc[t] \in PoolSteps <=> poolHolder = t
            /\ pc[t] \in Ended \cup LedgerSteps \cup PoolSteps
            /\ ~(lockHolder = t /\ poolHolder = t))
    /\ \A t \in Threads : (pc[t] \notin Ended) ~> (pc[t] \in Ended)

\* an add_block holds the ledger mutex while an add_transaction holds the
\* pool mutex, after a GET /blocks has come and gone
LockDisciplineWitness ==
    \E t, u \in Threads :
        /\ lockHolder = t /\ pc[t] = "add_check_hash"
        /\ poolHolder = u /\ pc[u] = "tx_push"
        /\ Len(pool) >= 1
        /\ Len(blocks) >= 2

\* C19: the clones of a Blockchain value work on one vector behind one
\* mutex, and the results of separate new() calls on separate ones.  Two
\* values descend from the same new() exactly when they point to the same
\* allocation; an add_block through one value is checked against, and
\* extends, the sequence seen through each of its clones, and leaves every
\* other ledger as it was, poison included; a get_all_blocks through one
\* value returns the sequence seen through each of its clones; and a new()
\* leaves every existing ledger as it was.
Seen(h) == arcs[handles[h]].blocks

ClonesShareLedgersDoNot ==
    [][/\ \A h, g \in HandleIds :
            (family'[h] # 0 /\ family'[g] # 0)
            => (family'[h] = family'[g] <=> handles'[h] = handles'[g])
       /\ (event' # event /\ event'.op = "add_block")
          => \A h \in HandleIds :
                family[h] # 0
                => IF family[h] # family[event'.handle]
                   THEN arcs'[handles[h]] = arcs[handles[h]]
                   ELSE IF event'.result = "ok"
                   THEN /\ event'.block.index = Last(Seen(h)).index + 1
                        /\ event'.block.previous_hash = Last(Seen(h)).hash
                        /\ arcs'[handles[h]].blocks
                              = Append(Seen(h), event'.block)
                   ELSE /\ arcs'[handles[h]].blocks = Seen(h)
                        /\ arcs'[handles[h]].poisoned
       /\ (event' # event /\ event'.op = "get_all_blocks"
             /\ event'.result = "ok")
          => \A h \in HandleIds :
                family[h] = family[event'.handle]
                => event'.blocks = Seen(h)
       /\ (event' # event /\ event'.op = "new")
          => /\ \A h \in HandleIds :
                   family[h] # 0 => arcs'[handles[h]] = arcs[handles[h]]
             /\ arcs'[handles'[event'.handle]].blocks
                   = <<create_genesis_block>>
      ]_vars

\* a value and its clone next to a separate ledger: a block was appended
\* through one of the two, get_all_blocks through the other has just
\* returned it, and the separate ledger still holds its genesis block alone
ClonesShareLedgersDoNotWitness ==
    \E h, g, k \in HandleIds :
        /\ h # g
        /\ family[h] = family[g] /\ family[h] # 0
        /\ family[k] # 0 /\ family[k] # family[h]
        /\ event.op = "get_all_blocks" /\ event.handle = h
        /\ Len(event.blocks) = 3
        /\ Len(arcs[handles[k]].blocks) = 1
        /\ ~arcs[handles[k]].poisoned

====
